---- MODULE Spec2Model ----
(***************************************************************************)
(* Model of consumers/kafka_consumer_kabore.py: the alert evaluator        *)
(* (process_message, _try_parse_json) and the polling loop of main.        *)
(*                                                                         *)
(* A message is a sequence of lexical tokens of its text: whitespace, the  *)
(* two braces, the comma, a run of other text, the bare special sentence,  *)
(* and a member  "key": value  of a JSON object.  A JSON value keeps its   *)
(* Python type after json.loads (int, float, bool, None, str).             *)
(***************************************************************************)
EXTENDS Integers, Sequences, FiniteSets, TLC

\* ------------------------------------------------------------- bounds
MaxMsgs == 3        \* longest stream of the main-loop specification
MaxLen == 4         \* longest free-form token sequence of the evaluator's inputs

\* ---------------------------------------------------------- constants
HrLimit == 120          \* hr > 120
StepsLimit == 12        \* steps > 12
GaitLimitCenti == 40    \* float(gait) < 0.40, in hundredths
Centi == 100            \* a float is carried in hundredths
FloatMax10Exp == 308    \* float(int) raises OverflowError beyond 1.797e308

Special == "I just loved a movie! It was funny."

\* ------------------------------------------------------------- values
\* A Python value: t is its type; an int is n * 10^e, a finite float is
\* n * 10^e hundredths, a non-finite float is named by s ("inf", "-inf",
\* "nan"); a str is s; a bool is b.
Val(t, n, e, s, b) == [t |-> t, n |-> n, e |-> e, s |-> s, b |-> b]
NoneV == Val("null", 0, 0, "", FALSE)
AbsentV == Val("absent", 0, 0, "", FALSE)
IntV(n) == Val("int", n, 0, "", FALSE)
BigIntV(n, e) == Val("int", n, e, "", FALSE)
RealV(c) == Val("real", c, 0, "", FALSE)
RealSpecialV(s) == Val("real", 0, 0, s, FALSE)
BoolV(b) == Val("bool", 0, 0, "", b)
StrV(s) == Val("str", 0, 0, s, FALSE)

\* isinstance(v, int): bool is a subclass of int in Python.
IsInstanceInt(v) == v.t \in {"int", "bool"}

\* isinstance(v, (int, float))
IsInstanceIntOrFloat(v) == v.t \in {"int", "bool", "real"}

\* The integer a bool compares as (True == 1, False == 0).
IntMantissa(v) == IF v.t = "bool" THEN (IF v.b THEN 1 ELSE 0) ELSE v.n

\* v > k for an int (or bool) v and a limit 0 <= k < 10^e.
IntGreater(v, k) ==
    IF v.e = 0 THEN IntMantissa(v) > k ELSE IntMantissa(v) > 0

\* float(v) for an int, bool or float v: [raised, f].  An int of magnitude
\* 10^e with e > 308 does not fit a double: OverflowError.
ToFloat(v) ==
    IF v.t = "real" THEN [raised |-> FALSE, f |-> v]
    ELSE IF v.t = "int" /\ v.n # 0 /\ v.e > FloatMax10Exp
         THEN [raised |-> TRUE, f |-> NoneV]
    ELSE [raised |-> FALSE,
          f |-> Val("real", IntMantissa(v) * Centi, v.e, "", FALSE)]

\* f < c for a float f and a limit of c hundredths, 0 <= c < 10^e.
FloatLess(f, c) ==
    IF f.s = "nan" \/ f.s = "inf" THEN FALSE
    ELSE IF f.s = "-inf" THEN TRUE
    ELSE IF f.e = 0 THEN f.n < c
    ELSE f.n < 0

\* What an f-string substitutes for {v}: None, True and False by name, a
\* str by its characters, a number by its literal.
PyStr(v) ==
    IF v.t = "null" THEN StrV("None")
    ELSE IF v.t = "bool" THEN StrV(IF v.b THEN "True" ELSE "False")
    ELSE v

\* ------------------------------------------------------------- tokens
Tok(k) == [tok |-> k, k |-> "", v |-> NoneV]
Pair(k, v) == [tok |-> "pair", k |-> k, v |-> v]
WS == Tok("ws")
LB == Tok("{")
RB == Tok("}")
COMMA == Tok(",")
JUNK == Tok("junk")
SPEC == Tok("special")

Keys == {"hr", "gait_score", "steps", "patient_id", "ts", "note"}

\* ---------------------------------------------------- _try_parse_json
RECURSIVE LStrip(_)
LStrip(s) == IF s # <<>> /\ Head(s) = WS THEN LStrip(Tail(s)) ELSE s

RECURSIVE RStrip(_)
RStrip(s) ==
    IF s # <<>> /\ s[Len(s)] = WS THEN RStrip(SubSeq(s, 1, Len(s) - 1)) ELSE s

\* s.strip()
Strip(s) == RStrip(LStrip(s))

StartsWithBrace(s) == s # <<>> /\ s[1] = LB
EndsWithBrace(s) == s # <<>> /\ s[Len(s)] = RB

NotWS(t) == t # WS

\* json.loads of a text that starts with "{" and ends with "}": an object
\* is  { }  or  { member (, member)* }  with whitespace allowed between
\* tokens; anything else is a JSONDecodeError.  A repeated key keeps its
\* last value.
json_loads(s) ==
    LET inner == SelectSeq(SubSeq(s, 2, Len(s) - 1), NotWS)
        wellFormed ==
            /\ Len(s) >= 2
            /\ \/ inner = <<>>
               \/ /\ Len(inner) % 2 = 1
                  /\ \A i \in 1..Len(inner) :
                        IF i % 2 = 1 THEN inner[i].tok = "pair"
                                     ELSE inner[i] = COMMA
        last(k) ==
            LET at == {i \in 1..Len(inner) :
                          inner[i].tok = "pair" /\ inner[i].k = k}
            IN IF at = {} THEN AbsentV
               ELSE inner[CHOOSE i \in at : \A j \in at : j <= i].v
    IN IF wellFormed
       THEN [error |-> FALSE, evt |-> [k \in Keys |-> last(k)]]
       ELSE [error |-> TRUE, evt |-> [k \in Keys |-> AbsentV]]

\* _try_parse_json: [none, evt]
try_parse_json(s) ==
    LET t == Strip(s)
    IN IF ~(StartsWithBrace(t) /\ EndsWithBrace(t))
       THEN [none |-> TRUE, evt |-> [k \in Keys |-> AbsentV]]
       ELSE LET r == json_loads(t)
            IN [none |-> r.error, evt |-> r.evt]

\* evt.get(k): None for a missing key
Get(evt, k) == IF evt[k].t = "absent" THEN NoneV ELSE evt[k]

\* special in message
SpecialIn(message) ==
    \E i \in 1..Len(message) :
        \/ message[i] = SPEC
        \/ message[i].tok = "pair" /\ message[i].v.t = "str"
                                   /\ message[i].v.s = Special

\* ------------------------------------------------------------ output
\* One written line: ch is "stdout" (print) or "log" (logger, at level);
\* its text is a template with up to three substituted values and, for the
\* templates that quote it, the message; i is the number of the message
\* being processed when it was written (0 outside process_message).
Text(tpl, a1, a2, a3, body) ==
    [tpl |-> tpl, a1 |-> a1, a2 |-> a2, a3 |-> a3, body |-> body]

Line(ch, level, text) ==
    [ch |-> ch, level |-> level, tpl |-> text.tpl, a1 |-> text.a1,
     a2 |-> text.a2, a3 |-> text.a3, body |-> text.body, i |-> 0]

TextOf(line) == Text(line.tpl, line.a1, line.a2, line.a3, line.body)

\* Emit with the logger call forgotten.
EmitPrintOnly(alert) == <<Line("stdout", "", alert)>>

\* print(alert); logger.warning(alert)
Emit(alert) == <<Line("stdout", "", alert), Line("log", "warning", alert)>>

TachyTpl == "ALERT Tachycardia: patient={pid} hr={hr} ts={ts}"
GaitTpl == "ALERT Low gait_score: patient={pid} gait_score={gait} ts={ts}"
StepsTpl == "ALERT Step surge: patient={pid} steps={steps} ts={ts}"
SpecialTpl == "ALERT: The special message was found!\n{message}"
ProcessingTpl == "Processing message: {message}"

AlertText(tpl, pid, val, ts) == Text(tpl, PyStr(pid), PyStr(val), PyStr(ts), <<>>)

\* logger.info(f"Processing message: {message}")
LogProcessing(message) ==
    <<Line("log", "info", Text(ProcessingTpl, NoneV, NoneV, NoneV, message))>>

\* if isinstance(hr, int) and hr > 120
HrRule(evt) ==
    LET hr == Get(evt, "hr")
    IN IF IsInstanceInt(hr) /\ IntGreater(hr, HrLimit)
       THEN Emit(AlertText(TachyTpl, Get(evt, "patient_id"), hr, Get(evt, "ts")))
       ELSE <<>>

\* if isinstance(gait, (int, float)) and float(gait) < 0.40: [raised, out]
GaitRule(evt) ==
    LET gait == Get(evt, "gait_score")
    IN IF ~IsInstanceIntOrFloat(gait) THEN [raised |-> FALSE, out |-> <<>>]
       ELSE LET c == ToFloat(gait)
            IN IF c.raised THEN [raised |-> TRUE, out |-> <<>>]
               ELSE IF FloatLess(c.f, GaitLimitCenti)
               THEN [raised |-> FALSE,
                     out |-> Emit(AlertText(GaitTpl, Get(evt, "patient_id"),
                                            gait, Get(evt, "ts")))]
               ELSE [raised |-> FALSE, out |-> <<>>]

\* if isinstance(steps, int) and steps > 12
StepsRule(evt) ==
    LET steps == Get(evt, "steps")
    IN IF IsInstanceInt(steps) /\ IntGreater(steps, StepsLimit)
       THEN Emit(AlertText(StepsTpl, Get(evt, "patient_id"), steps, Get(evt, "ts")))
       ELSE <<>>

\* The structured path: the three rules in order; an OverflowError of
\* float(gait) leaves the function after the lines already written.
StructuredPath(evt) ==
    LET g == GaitRule(evt)
    IN IF g.raised
       THEN [raised |-> TRUE, out |-> HrRule(evt)]
       ELSE [raised |-> FALSE, out |-> HrRule(evt) \o g.out \o StepsRule(evt)]

\* The plain-text path quoting the trimmed message instead of the original.
PlainPathTrimmed(message) ==
    IF SpecialIn(message)
    THEN Emit(Text(SpecialTpl, NoneV, NoneV, NoneV, Strip(message)))
    ELSE <<>>

\* The plain-text path
PlainPath(message) ==
    IF SpecialIn(message)
    THEN Emit(Text(SpecialTpl, NoneV, NoneV, NoneV, message))
    ELSE <<>>

\* process_message without the return of line 94: a decoded record goes on
\* to the plain-text rule.
process_message_fallthrough(message) ==
    LET p == try_parse_json(message)
    IN IF ~p.none
       THEN LET r == StructuredPath(p.evt)
            IN [raised |-> r.raised,
                out |-> LogProcessing(message) \o r.out
                        \o (IF r.raised THEN <<>> ELSE PlainPath(message))]
       ELSE [raised |-> FALSE,
             out |-> LogProcessing(message) \o PlainPath(message)]

\* process_message(message): the lines it writes, and whether it raised.
process_message(message) ==
    LET p == try_parse_json(message)
    IN IF ~p.none
       THEN LET r == StructuredPath(p.evt)
            IN [raised |-> r.raised, out |-> LogProcessing(message) \o r.out]
       ELSE [raised |-> FALSE,
             out |-> LogProcessing(message) \o PlainPath(message)]

\* ------------------------------------------------------------ inputs
\* Separate the members of an object with commas.
RECURSIVE Join(_)
Join(ps) ==
    IF Len(ps) <= 1 THEN ps ELSE <<Head(ps), COMMA>> \o Join(Tail(ps))

Member(k, v) == IF v = AbsentV THEN <<>> ELSE <<Pair(k, v)>>

\* The text of an object with the given fields (AbsentV: the key is left out).
Object(pid, ts, note, hr, gait, steps) ==
    <<LB>> \o Join(Member("patient_id", pid) \o Member("ts", ts)
                   \o Member("note", note) \o Member("hr", hr)
                   \o Member("gait_score", gait) \o Member("steps", steps))
         \o <<RB>>

HrVals ==
    {AbsentV, NoneV, IntV(120), IntV(121), BoolV(TRUE), BoolV(FALSE),
     RealV(13000), StrV("150"), BigIntV(1, 400)}

GaitVals ==
    {AbsentV, NoneV, RealV(39), RealV(40), IntV(0), IntV(1), BoolV(TRUE),
     BoolV(FALSE), StrV("0.2"), BigIntV(1, 300), BigIntV(1, 400),
     BigIntV(-1, 400), RealSpecialV("-inf"), RealSpecialV("nan")}

StepsVals ==
    {AbsentV, IntV(12), IntV(13), BoolV(TRUE), RealV(2000), StrV("20"),
     BigIntV(1, 400)}

MetaVals ==
    {<<AbsentV, AbsentV, AbsentV>>, <<StrV("p1"), StrV("t1"), AbsentV>>,
     <<NoneV, IntV(7), StrV(Special)>>}

Pads == {<<>>, <<WS>>}

\* Objects over every combination of field values, bare or padded.
ObjectMessages ==
    {pad \o Object(m[1], m[2], m[3], hr, gait, steps) \o pad :
        pad \in Pads, m \in MetaVals, hr \in HrVals, gait \in GaitVals,
        steps \in StepsVals}

Alphabet ==
    {WS, LB, RB, COMMA, JUNK, SPEC, Pair("hr", IntV(150)),
     Pair("note", StrV(Special))}

\* Every text of at most MaxLen tokens.
FreeMessages == UNION {[1..n -> Alphabet] : n \in 0..MaxLen}

AllMessages == ObjectMessages \cup FreeMessages

\* The messages of the streams the polling loop is run on.
StreamMessages ==
    {Object(StrV("p1"), StrV("t1"), AbsentV, IntV(150), AbsentV, AbsentV),
     Object(StrV("p3"), StrV("t3"), AbsentV, IntV(130), AbsentV, IntV(20)),
     Object(StrV("p2"), StrV("t2"), AbsentV, AbsentV, RealV(20), AbsentV),
     Object(AbsentV, AbsentV, AbsentV, AbsentV, BoolV(FALSE), AbsentV),
     Object(AbsentV, AbsentV, AbsentV, IntV(130), BigIntV(1, 400), IntV(20)),
     <<SPEC>>,
     <<JUNK>>,
     <<LB, Pair("hr", IntV(150)), RB, JUNK, RB>>}

\* -------------------------------------------------------------- state
VARIABLES
    stream,     \* the messages the consumer will yield, in order
    pos,        \* how many of them the iterator has yielded
    cur,        \* message_str of the current iteration
    consumed,   \* the messages handed to process_message, in order
    out,        \* every line written, in program order
    pc,         \* where main is
    exc,        \* the exception that left the loop: [kind, at]
    closed,     \* how many times consumer.close() was called
    result      \* "running", "returned" or "propagated"

vars == <<stream, pos, cur, consumed, out, pc, exc, closed, result>>

Info(tpl) == Line("log", "info", Text(tpl, NoneV, NoneV, NoneV, <<>>))

\* Lines 116-124: the lines logged before the loop.
StartLines ==
    <<Info("START consumer."), Info("Kafka topic: {topic}"),
      Info("Kafka consumer group id: {group_id}"),
      Info("Consumer: topic='{topic}', group='{group_id}'"),
      Info("Polling messages from topic '{topic}'...")>>

NoExc == [kind |-> "", at |-> 0]

InitOn(streams) ==
    /\ stream \in streams
    /\ pos = 0
    /\ cur = <<>>
    /\ consumed = <<>>
    /\ out = StartLines
    /\ pc = "poll"
    /\ exc = NoExc
    /\ closed = 0
    /\ result = "running"

\* Streams of at most MaxMsgs messages.
Init == InitOn(UNION {[1..n -> StreamMessages] : n \in 0..MaxMsgs})

\* One message, of any form and any field values.
InitPM == InitOn({<<m>> : m \in AllMessages})

\* The lines of one process_message call, numbered with its message.
Tag(lines, i) == [j \in 1..Len(lines) |-> [lines[j] EXCEPT !.i = i]]

\* Writing with alerts already written left out (deduplication).
WriteDedup(old, lines) ==
    old \o SelectSeq(lines, LAMBDA l :
              l.tpl = ProcessingTpl
              \/ ~\E j \in 1..Len(old) :
                    old[j].ch = l.ch /\ TextOf(old[j]) = TextOf(l))

\* What the loop appends to the output.
Write(old, lines) == old \o lines

\* The stream read from its end.
NextMessageReversed == stream[Len(stream) - pos]

\* The message the iterator yields next.
NextMessage == stream[pos + 1]

\* for message in consumer: message_str = message.value; logger.debug(...)
Receive ==
    /\ pc = "poll"
    /\ pos < Len(stream)
    /\ cur' = NextMessage
    /\ pos' = pos + 1
    /\ out' = Write(out, <<Line("log", "debug",
                  Text("Received offset {offset}: {message_str}",
                       IntV(pos), NoneV, NoneV, NextMessage))>>)
    /\ pc' = "process"
    /\ UNCHANGED <<stream, consumed, exc, closed, result>>

\* process_message(message_str); an exception it raises leaves the loop.
CallProcessMessage ==
    /\ pc = "process"
    /\ LET r == process_message(cur)
       IN /\ consumed' = Append(consumed, cur)
          /\ out' = Write(out, Tag(r.out, Len(consumed) + 1))
          /\ IF r.raised
             THEN /\ exc' = [kind |-> "OverflowError", at |-> Len(consumed) + 1]
                  /\ pc' = "except"
             ELSE /\ exc' = exc
                  /\ pc' = "poll"
    /\ UNCHANGED <<stream, pos, cur, closed, result>>

\* The iterator is exhausted: the for loop ends.
StreamEnd ==
    /\ pc = "poll"
    /\ pos = Len(stream)
    /\ pc' = "finally"
    /\ UNCHANGED <<stream, pos, cur, consumed, out, exc, closed, result>>

\* The iterator raises (a broker or deserialization error).
ReceiveError ==
    /\ pc = "poll"
    /\ exc' = [kind |-> "KafkaError", at |-> Len(consumed)]
    /\ pc' = "except"
    /\ UNCHANGED <<stream, pos, cur, consumed, out, closed, result>>

\* Ctrl-C while the loop waits for a message or is about to process one.
Interrupt ==
    /\ pc \in {"poll", "process"}
    /\ exc' = [kind |-> "KeyboardInterrupt", at |-> Len(consumed)]
    /\ pc' = "except"
    /\ UNCHANGED <<stream, pos, cur, consumed, out, closed, result>>

\* KeyboardInterrupt derives from BaseException, not from Exception.
IsException(kind) == kind \in {"OverflowError", "KafkaError"}

\* The except clause that takes the exception: "kbd", "exc" or "none".
Handler(kind) ==
    IF kind = "KeyboardInterrupt" THEN "kbd"
    ELSE IF IsException(kind) THEN "exc"
    ELSE "none"

\* close() in the try's normal path only: a handler leaves past it.
AfterHandlerSkipsClose == "end"

\* The handler going back to the loop (skipping the message).
AfterHandlerContinues == "poll"

\* Where the matching except clause continues.
AfterHandler == "finally"

\* except KeyboardInterrupt / except Exception as e
Except ==
    /\ pc = "except"
    /\ out' = Write(out,
          IF Handler(exc.kind) = "kbd"
          THEN <<Line("log", "warning",
                      Text("Consumer interrupted by user.", NoneV, NoneV, NoneV, <<>>))>>
          ELSE IF Handler(exc.kind) = "exc"
          THEN <<Line("log", "error",
                      Text("Error while consuming messages: {e}",
                           StrV(exc.kind), NoneV, NoneV, <<>>))>>
          ELSE <<>>)
    /\ pc' = AfterHandler
    /\ UNCHANGED <<stream, pos, cur, consumed, exc, closed, result>>

\* finally: consumer.close(); logger.info(... closed.)
Finally ==
    /\ pc = "finally"
    /\ closed' = closed + 1
    /\ out' = Write(out, <<Info("Kafka consumer for topic '{topic}' closed.")>>)
    /\ IF exc.kind # "" /\ Handler(exc.kind) = "none"
       THEN /\ pc' = "done"
            /\ result' = "propagated"
       ELSE /\ pc' = "end"
            /\ result' = result
    /\ UNCHANGED <<stream, pos, cur, consumed, exc>>

\* logger.info(END ...); main returns.
End ==
    /\ pc = "end"
    /\ out' = Write(out, <<Info("END consumer for topic '{topic}' and group '{group_id}'.")>>)
    /\ pc' = "done"
    /\ result' = "returned"
    /\ UNCHANGED <<stream, pos, cur, consumed, exc, closed>>

Next ==
    \/ Receive
    \/ CallProcessMessage
    \/ StreamEnd
    \/ ReceiveError
    \/ Interrupt
    \/ Except
    \/ Finally
    \/ End

Spec == Init /\ [][Next]_vars

SpecPM == InitPM /\ [][Next]_vars

\* ------------------------------------------------- reading the output
\* The lines written while message i was being processed.
LinesOf(i) == SelectSeq(out, LAMBDA l : l.i = i)

\* The lines of message i after its "Processing message" line.
AlertLinesOf(i) == SelectSeq(out, LAMBDA l : l.i = i /\ l.tpl # ProcessingTpl)

\* How many lines of a sequence satisfy a test.
Count(lines, Test(_)) == Len(SelectSeq(lines, Test))

\* How many alerts of a template message i printed.
Printed(i, tpl) == Count(out, LAMBDA l : l.i = i /\ l.ch = "stdout" /\ l.tpl = tpl)

ThresholdTpls == {TachyTpl, GaitTpl, StepsTpl}

\* The message was decoded as a record.
Decoded(m) == ~try_parse_json(m).none

\* The field of the record a message decodes as.
Field(m, k) == try_parse_json(m).evt[k]

\* The claims' own reading of the field types: a JSON integer, a JSON
\* number, and their comparisons with a limit.
IsInteger(v) == v.t = "int"
IsReal(v) == v.t = "real"
IsBoolean(v) == v.t = "bool"
IntegerAbove(v, k) == (v.e = 0 /\ v.n > k) \/ (v.e > 0 /\ v.n > 0)
NumberBelowGaitLimit(v) ==
    IF IsInteger(v) THEN v.n <= 0
    ELSE \/ v.s = "-inf"
         \/ v.s = "" /\ v.e = 0 /\ v.n < GaitLimitCenti
         \/ v.s = "" /\ v.e > 0 /\ v.n < 0

Bit(b) == IF b THEN 1 ELSE 0

\* C1: for every message decoded as a record, the tachycardia alert is
\* printed (once) iff hr is an integer > 120, the low-gait alert iff
\* gait_score is a number < 0.40, the step-surge alert iff steps is an
\* integer > 12, each whatever the other two fields hold.
C1_IndependentRules ==
    \A i \in 1..Len(consumed) :
        LET m == consumed[i]
        IN Decoded(m) =>
            /\ Printed(i, TachyTpl) =
                  Bit(IsInteger(Field(m, "hr")) /\ IntegerAbove(Field(m, "hr"), HrLimit))
            /\ Printed(i, GaitTpl) =
                  Bit(/\ IsInteger(Field(m, "gait_score")) \/ IsReal(Field(m, "gait_score"))
                      /\ NumberBelowGaitLimit(Field(m, "gait_score")))
            /\ Printed(i, StepsTpl) =
                  Bit(IsInteger(Field(m, "steps"))
                      /\ IntegerAbove(Field(m, "steps"), StepsLimit))

\* C2: a boolean hr, steps or gait_score never produces its alert, and a
\* real hr or steps never produces its alert.
C2_StrictTypes ==
    \A i \in 1..Len(consumed) :
        LET m == consumed[i]
        IN Decoded(m) =>
            /\ IsBoolean(Field(m, "hr")) \/ IsReal(Field(m, "hr"))
                  => Printed(i, TachyTpl) = 0
            /\ IsBoolean(Field(m, "steps")) \/ IsReal(Field(m, "steps"))
                  => Printed(i, StepsTpl) = 0
            /\ IsBoolean(Field(m, "gait_score")) => Printed(i, GaitTpl) = 0

\* C3: no call of process_message raises: the loop is never left by an
\* exception of the evaluator.
C3_NeverRaises == exc.kind # "OverflowError"

\* The claims' own reading of "begins with { and ends with } after trimming".
NonBlank(m) == {j \in 1..Len(m) : m[j] # WS}
Bracketed(m) ==
    /\ NonBlank(m) # {}
    /\ \A j \in NonBlank(m) :
          /\ (\A k \in NonBlank(m) : j <= k) => m[j] = LB
          /\ (\A k \in NonBlank(m) : k <= j) => m[j] = RB

\* The special sentence occurs in the text of the message.
Occurs(m) ==
    \E j \in 1..Len(m) :
        m[j].tok = "special" \/ (m[j].tok = "pair" /\ m[j].v = StrV(Special))

SpecialAlert(m) == Text(SpecialTpl, NoneV, NoneV, NoneV, m)

Untagged(lines) == [j \in 1..Len(lines) |-> [lines[j] EXCEPT !.i = 0]]

C5_NoStateBetweenMessages ==
    \A i, j \in 1..Len(consumed) :
        consumed[i] = consumed[j] => Untagged(LinesOf(i)) = Untagged(LinesOf(j))

\* The same alerting message was processed first and third, another between.
C5_Witness ==
    /\ Len(consumed) = 3
    /\ consumed[1] = consumed[3]
    /\ consumed[1] # consumed[2]
    /\ Len(AlertLinesOf(1)) = 4
    /\ Len(AlertLinesOf(3)) = 4

\* The alert texts printed by a sequence of lines.
StdoutTexts(lines) ==
    LET printed == SelectSeq(lines, LAMBDA l : l.ch = "stdout")
    IN [j \in 1..Len(printed) |-> TextOf(printed[j])]

RECURSIVE AlertsInOrder(_)
AlertsInOrder(ms) ==
    IF ms = <<>> THEN <<>>
    ELSE AlertsInOrder(SubSeq(ms, 1, Len(ms) - 1))
         \o StdoutTexts(process_message(ms[Len(ms)]).out)

\* C6: messages are processed one at a time in stream order, a message is
\* received only when the one before it has been processed, the lines of
\* message i all precede those of message i+1, and what was printed is the
\* concatenation, in order, of the alerts of the processed messages.
C6_Sequential ==
    /\ Len(consumed) <= Len(stream)
    /\ consumed = SubSeq(stream, 1, Len(consumed))
    /\ pos - Len(consumed) \in {0, 1}
    /\ \A a, b \in 1..Len(out) :
          a < b /\ out[a].i > 0 /\ out[b].i > 0 => out[a].i <= out[b].i
    /\ StdoutTexts(out) = AlertsInOrder(consumed)

\* Three different messages were processed and the first two printed alerts.
C6_Witness ==
    /\ pc = "done"
    /\ Len(consumed) = 3
    /\ consumed[1] # consumed[2] /\ consumed[2] # consumed[3]
    /\ Printed(1, TachyTpl) = 1
    /\ Printed(2, SpecialTpl) = 1

IsProcessingLine(l, m) ==
    l.ch = "log" /\ l.level = "info" /\ l.tpl = ProcessingTpl /\ l.body = m

\* C7: every processed message has exactly one Processing line, written
\* before its alerts, and each alert is printed and then logged at warning
\* level with the same text, so printed and warning-logged alerts are equal
\* in number.
C7_LoggedThenAlerted ==
    /\ \A i \in 1..Len(consumed) :
          LET ls == LinesOf(i)
          IN /\ Len(ls) >= 1
             /\ IsProcessingLine(ls[1], consumed[i])
             /\ Count(ls, LAMBDA l : l.tpl = ProcessingTpl) = 1
             /\ Len(ls) % 2 = 1
             /\ \A k \in 1..((Len(ls) - 1) \div 2) :
                   /\ ls[2 * k].ch = "stdout"
                   /\ ls[2 * k + 1].ch = "log"
                   /\ ls[2 * k + 1].level = "warning"
                   /\ TextOf(ls[2 * k]) = TextOf(ls[2 * k + 1])
    /\ Count(out, LAMBDA l : l.tpl = ProcessingTpl) = Len(consumed)
    /\ Count(out, LAMBDA l : l.ch = "stdout")
         = Count(out, LAMBDA l : l.level = "warning" /\ l.i > 0)

\* A message with two alerts was processed, and one whose evaluation
\* raised after its first alert.
C7_Witness ==
    /\ Len(consumed) = 2
    /\ Len(LinesOf(1)) = 5
    /\ exc = [kind |-> "OverflowError", at |-> 2]
    /\ Len(LinesOf(2)) = 3

\* C8: a message decoded as a record never writes the special-message
\* alert, whatever its text holds, and no message writes both the
\* special-message alert and a threshold alert.
C8_PathsExclusive ==
    \A i \in 1..Len(consumed) :
        /\ Decoded(consumed[i]) =>
              ~\E j \in 1..Len(out) : out[j].i = i /\ out[j].tpl = SpecialTpl
        /\ ~(/\ \E j \in 1..Len(out) : out[j].i = i /\ out[j].tpl = SpecialTpl
             /\ \E j \in 1..Len(out) : out[j].i = i /\ out[j].tpl \in ThresholdTpls)

\* A record holding the special sentence in a field raised a tachycardia
\* alert and no special-message alert.
C8_Witness ==
    /\ Len(consumed) = 1
    /\ Decoded(consumed[1])
    /\ Occurs(consumed[1])
    /\ Printed(1, TachyTpl) = 1
    /\ Printed(1, SpecialTpl) = 0

ClosedOnce ==
    /\ closed <= 1
    /\ pc \in {"end", "done"} <=> closed = 1

\* C9: the consumer is closed exactly once on every way out of the loop
\* (it is closed when main is past the finally block and only then, never
\* twice), and once it is closed no message is received or processed.
C9_ClosedOnceOnEveryExit ==
    /\ []ClosedOnce
    /\ [][closed >= 1 => /\ consumed' = consumed
                         /\ pos' = pos
                         /\ closed' = closed]_vars

\* main finished after an exception of process_message, closed once, with
\* a message of the stream never received.
C9_Witness ==
    /\ pc = "done"
    /\ closed = 1
    /\ exc.kind = "OverflowError"
    /\ pos < Len(stream)

ErrorLines == Count(out, LAMBDA l : l.level = "error")
InterruptLines == Count(out, LAMBDA l : l.tpl = "Consumer interrupted by user.")
EndLogged ==
    out[Len(out)] = Info("END consumer for topic '{topic}' and group '{group_id}'.")

\* C10 as stated: an exception raised while receiving or processing
\* message i ends consumption (no message is processed after it), and main
\* logs one error, closes the consumer, logs END and returns normally.
C10_AnyExceptionLogsOneError ==
    exc.kind # "" =>
        /\ Len(consumed) = exc.at
        /\ pc = "done" =>
              /\ ErrorLines = 1
              /\ closed = 1
              /\ EndLogged
              /\ result = "returned"

\* C10 amended: the same, with one error logged for an exception of class
\* Exception, and for a KeyboardInterrupt no error but one warning.
C10_ExceptionEndsConsumption ==
    exc.kind # "" =>
        /\ Len(consumed) = exc.at
        /\ pc = "done" =>
              /\ closed = 1
              /\ EndLogged
              /\ result = "returned"
              /\ IF exc.kind = "KeyboardInterrupt"
                 THEN ErrorLines = 0 /\ InterruptLines = 1
                 ELSE ErrorLines = 1 /\ InterruptLines = 0

\* process_message raised on the second of three messages and main
\* finished: the third was never processed.
C10_Witness ==
    /\ pc = "done"
    /\ exc = [kind |-> "OverflowError", at |-> 2]
    /\ Len(stream) = 3
    /\ Len(consumed) = 2
    /\ ErrorLines = 1
====
